---- MODULE Spec2Model ----
(***************************************************************************)
(* The HiPages job-posting server: the in-memory session store of          *)
(* hipages-automation.ts (activeSessions), the caller-visible status store *)
(* of the HTTP layer (jobStatuses), and the asynchronous handlers that     *)
(* work on them: startJobPosting, submitOtp, cancelSession, getJobStatus   *)
(* and the four /api/jobs routes.                                          *)
(*                                                                         *)
(* hipages-automation.ts holds two implementations of the same module      *)
(* (lines 1-367 and lines 369-743).  impl = 1 is the first, impl = 2 the    *)
(* second; a behaviour runs one of them throughout.                        *)
(*                                                                         *)
(* One action is one run of JavaScript between two suspension points: the  *)
(* completion of the awaited operation and all the synchronous code up to  *)
(* the next await.  The browser is outside the program: an operation on it *)
(* succeeds or throws, and it always throws once the browser is closed.    *)
(***************************************************************************)
EXTENDS Integers, Sequences, FiniteSets, TLC

\* Bounds of the model.
NumJobs == 2      \* job identifiers the clients use
MaxOtp == 2       \* POST /api/jobs/:jobId/otp requests that reach submitOtp
MaxCancel == 2    \* DELETE /api/jobs/:jobId requests
MaxFaults == 2    \* browser and file operations that fail on their own
MaxTime == 2      \* values Date.now() takes
MaxRefused == 1   \* POST /api/jobs/:jobId/otp requests the route refuses

Jobs == 1..NumJobs
Impls == {1, 2}

\* jobData.photos: which of original and visualization hold a payload (a
\* data URL).
PhotoKinds == <<"original", "viz">>

PhotoPayloads == SUBSET {"original", "viz"}

\* What happens in one behaviour, at most: one job, with any photos, MaxOtp
\* OTP requests and MaxCancel cancels racing on it, and MaxFaults failures;
\* or two jobs side by side, each with one photo or none, one OTP request
\* and one cancel between them, and one failure; or one job with one photo
\* or none, one OTP request that reaches submitOtp, one cancel, one failure,
\* and OTP requests that the route refuses.
Workloads ==
    {[posts |-> 1, payloads |-> PhotoPayloads, otps |-> MaxOtp, cancels |-> MaxCancel,
      faults |-> MaxFaults, refusals |-> 0],
     [posts |-> 2, payloads |-> {{}, {"original"}}, otps |-> 1, cancels |-> 1,
      faults |-> 1, refusals |-> 0],
     [posts |-> 1, payloads |-> {{}, {"original"}}, otps |-> 1, cancels |-> 1,
      faults |-> 1, refusals |-> MaxRefused]}

VARIABLES
    impl,            \* which of the two implementations of the file runs
    workload,        \* the requests the clients send at most (fixed by Init)
    activeSessions,  \* Map jobId -> [browser, status]
    jobStatuses,     \* Map jobId -> HiPagesJobStatus (the HTTP layer's store)
    browser,         \* per launched browser (one per job): "none", "open", "closed"
    closedBy,        \* per browser, the function whose close() closed it ("": none)
    pc,              \* startJobPosting(j): "none", "run", "catch", "done", "rejected"
    at,              \* startJobPosting(j): index of the awaited operation in Ops
    photos,          \* jobData.photos: the kinds ("original", "viz") that hold a payload
    disk,            \* the temporary image files present in os.tmpdir()
    tempFiles,       \* uploadPhotos(j): the paths it has pushed to tempFiles / filesToUpload
    now,             \* the latest reading of Date.now() (0: not read yet)
    caught,          \* startJobPosting(j): message of the error its catch block holds
    cancelling,      \* cancelSession(j) calls awaiting session.browser.close()
    otp,             \* submitOtp(j) calls in flight, counted by the await they are at
    nOtp,            \* submitOtp calls made so far
    refusedOtp,      \* the OTP requests the route refused, in order: the job, whether
                     \* the body held a code, and the HTTP status of the answer
    nCancel,         \* cancelSession calls made so far
    cancelled,       \* jobs cancelSession was called for after startJobPosting began
    updates,         \* per job, the statuses delivered to onStatusUpdate, in order
    returned,        \* per job, the statuses submitOtp returned, in order
    threw,           \* per job, the calls whose promise rejected
    faults           \* browser operations that rejected on their own so far

vars == <<impl, workload, activeSessions, jobStatuses, browser, closedBy, pc, at, photos, disk,
          tempFiles, now, caught,
          cancelling, otp, nOtp, refusedOtp, nCancel, cancelled, updates, returned, threw, faults>>

-----------------------------------------------------------------------------
\* HiPagesJobStatus (types.ts): hipagesJobId / hipagesJobUrl / error are
\* optional; "" and FALSE stand for an absent field.
St(s, m) ==
    [status |-> s, message |-> m, error |-> "", hipagesJobId |-> FALSE, hipagesJobUrl |-> FALSE]

Failed(m, e) ==
    [status |-> "failed", message |-> m, error |-> e, hipagesJobId |-> FALSE, hipagesJobUrl |-> FALSE]

\* Map.set / Map.delete / Map.has
MapSet(m, k, v) == [x \in (DOMAIN m) \cup {k} |-> IF x = k THEN v ELSE m[x]]

MapDelete(m, k) == [x \in (DOMAIN m) \ {k} |-> m[x]]

MapHas(m, k) == k \in DOMAIN m

EmptyMap == [x \in {} |-> St("", "")]

-----------------------------------------------------------------------------
\* The awaited operations of startJobPosting, in order.  "<stage>.delay" is
\* the part of a stage after its last interaction with the page (its
\* trailing delay(), or the swallowed waitForNavigation).  "uploadPhotos" is
\* the lookup of the file input, "uploadPhotos.upload" is uploadFile.
StageOps(withPhotos) ==
    <<"fillCategory", "fillCategory.delay", "fillLocation", "fillLocation.delay",
      "clickGetQuotes", "clickGetQuotes.delay",
      "answerFormQuestions", "answerFormQuestions.delay",
      "fillDescription", "fillDescription.delay">>
    \o (IF withPhotos THEN <<"uploadPhotos", "uploadPhotos.upload", "uploadPhotos.delay">>
        ELSE << >>)
    \o <<"fillContactDetails", "fillContactDetails.delay">>

Ops(i, withPhotos) ==
    IF i = 1
    THEN <<"launch", "newPage", "goto">> \o StageOps(withPhotos)
    ELSE <<"launch", "newPage", "goto", "waitForSelector">> \o StageOps(withPhotos)

IsDelay(op) ==
    op \in {"fillCategory.delay", "fillLocation.delay", "clickGetQuotes.delay",
            "answerFormQuestions.delay", "fillDescription.delay",
            "uploadPhotos.delay", "fillContactDetails.delay"}

\* The message of the error an operation throws.
ErrorOf(op, b) ==
    IF op = "launch" THEN "Failed to launch the browser process"
    ELSE IF b # "open" THEN "Target closed"
    ELSE IF op \in {"goto", "waitForSelector"} THEN "Navigation timeout"
    ELSE "Interaction failed"

\* What browser.close() can do: resolve with the browser closed, or reject
\* with the browser in either state.
CloseOutcomes(b) ==
    {[ok |-> TRUE, browser |-> "closed"], [ok |-> FALSE, browser |-> "closed"],
     [ok |-> FALSE, browser |-> b]}

-----------------------------------------------------------------------------
\* The status the first implementation passes to onStatusUpdate before it
\* awaits op ("end": after the last stage); << >> when it passes none.
Update1(op) ==
    CASE op = "launch" -> <<St("pending", "Launching browser...")>>
      [] op = "goto" -> <<St("filling_form", "Navigating to HiPages...")>>
      [] op = "fillCategory" -> <<St("filling_form", "Selecting category...")>>
      [] op = "fillLocation" -> <<St("filling_form", "Entering location...")>>
      [] op = "clickGetQuotes" -> <<St("filling_form", "Getting quotes form...")>>
      [] op = "answerFormQuestions" -> <<St("filling_form", "Answering questions...")>>
      [] op = "fillDescription" -> <<St("filling_form", "Adding job description...")>>
      [] op = "uploadPhotos" -> <<St("uploading_photos", "Uploading photos...")>>
      [] op = "fillContactDetails" -> <<St("filling_form", "Entering contact details...")>>
      [] op = "end" -> <<St("awaiting_otp", "Please enter the verification code sent to your phone")>>
      [] OTHER -> << >>

\* The partial status the second implementation passes to updateStatus
\* before it awaits op; status "" is a partial that sets the message only.
Update2(op) ==
    CASE op = "launch" -> <<St("pending", "Launching browser...")>>
      [] op = "goto" -> <<St("filling_form", "Navigating to HiPages...")>>
      [] op = "fillCategory" -> <<St("", "Filling category...")>>
      [] op = "fillLocation" -> <<St("", "Filling location...")>>
      [] op = "answerFormQuestions" -> <<St("", "Answering questions...")>>
      [] op = "fillDescription" -> <<St("", "Filling job description...")>>
      [] op = "uploadPhotos" -> <<St("uploading_photos", "Uploading photos...")>>
      [] op = "fillContactDetails" -> <<St("", "Filling contact details...")>>
      [] op = "end" -> <<St("awaiting_otp", "Enter the code sent to the contact phone")>>
      [] OTHER -> << >>

\* updateStatus of the second implementation: { ...currentStatus, ...status }
\* over the session's status, or over a default when there is no session.
MergedStatus(sessions, j, partial) ==
    LET currentStatus == IF MapHas(sessions, j) THEN sessions[j].status
                         ELSE St("pending", "Starting...")
    IN  [currentStatus EXCEPT !.status = IF partial.status = "" THEN @ ELSE partial.status,
                              !.message = partial.message]

\* The status delivered to onStatusUpdate before op is awaited (<< >>: none).
Delivered(i, sessions, j, op) ==
    IF i = 1 THEN Update1(op)
    ELSE IF Update2(op) = << >> THEN << >>
    ELSE <<MergedStatus(sessions, j, Update2(op)[1])>>

\* The session store after the synchronous code that precedes the await of op.
SessionsAt(i, sessions, j, op) ==
    IF ~MapHas(sessions, j) THEN sessions
    ELSE IF i = 1
    THEN IF op = "end"
         THEN [sessions EXCEPT ![j].status = St("awaiting_otp", "Waiting for OTP verification")]
         ELSE sessions
    ELSE IF Update2(op) = << >> THEN sessions
    ELSE [sessions EXCEPT ![j].status = MergedStatus(sessions, j, Update2(op)[1])]

\* The server's status callback (POST /api/jobs): jobStatuses.set(jobId, status).
Callback(statuses, j, delivered) ==
    IF delivered = << >> THEN statuses ELSE MapSet(statuses, j, delivered[1])

\* The awaits of submitOtp: the page interactions that enter the code, the
\* wait that follows them, browser.close() of the try block, and
\* browser.close() of the catch block, which holds the caught error.
OtpErrors == {"Target closed", "Interaction failed", "Failed to close the browser"}

OtpPoint(a, e) == [await |-> a, error |-> e]

OtpPoints ==
    {OtpPoint(a, "") : a \in {"interact", "wait", "close"}}
    \cup {OtpPoint("catchClose", e) : e \in OtpErrors}

Inc(f, x) == [f EXCEPT ![x] = @ + 1]

Dec(f, x) == [f EXCEPT ![x] = @ - 1]

KindsOf(payload) == SelectSeq(PhotoKinds, LAMBDA k : k \in payload)

\* n readings of Date.now() in a row, the latest before them being from: a
\* reading is the one before it or the next value (the first reading of a
\* behaviour is 1).
Readings(from, n) ==
    {ts \in [1..n -> 1..MaxTime] :
        \A i \in 1..n : ts[i] \in {IF i = 1 THEN from ELSE ts[i - 1],
                                    (IF i = 1 THEN from ELSE ts[i - 1]) + 1}}

\* path.join(os.tmpdir(), `hipages_<kind>_${Date.now()}.jpg`)
TempPath(kind, t) == [kind |-> kind, at |-> t]

\* The paths of the first n files of a payload, named at the readings ts.
TempPaths(payload, ts, n) == {TempPath(KindsOf(payload)[i], ts[i]) : i \in 1..n}

\* try { fs.unlinkSync(f) } catch {} for every f of files: a file that is
\* not there is passed over.
Unlinked(files, paths) == files \ paths

\* close() has settled on job j's browser, which is now in state b.
BrowserBecomes(j, b, who) ==
    /\ browser' = [browser EXCEPT ![j] = b]
    /\ closedBy' = IF browser[j] = "open" /\ b = "closed"
                   THEN [closedBy EXCEPT ![j] = who] ELSE closedBy

\* A browser operation rejects: on its own (counted, and bounded by the
\* workload) or because the browser is closed.
Fault(onItsOwn) ==
    /\ onItsOwn => faults < workload.faults
    /\ faults' = IF onItsOwn THEN faults + 1 ELSE faults

-----------------------------------------------------------------------------
Init ==
    /\ impl \in Impls
    /\ workload \in Workloads
    /\ activeSessions = EmptyMap
    /\ jobStatuses = EmptyMap
    /\ browser = [j \in Jobs |-> "none"]
    /\ closedBy = [j \in Jobs |-> ""]
    /\ pc = [j \in Jobs |-> "none"]
    /\ at = [j \in Jobs |-> 0]
    /\ photos = [j \in Jobs |-> {}]
    /\ disk = {}
    /\ tempFiles = [j \in Jobs |-> {}]
    /\ now = 0
    /\ caught = [j \in Jobs |-> ""]
    /\ cancelling = [j \in Jobs |-> 0]
    /\ otp = [j \in Jobs |-> [p \in OtpPoints |-> 0]]
    /\ nOtp = 0
    /\ refusedOtp = << >>
    /\ nCancel = 0
    /\ cancelled = {}
    /\ updates = [j \in Jobs |-> << >>]
    /\ returned = [j \in Jobs |-> << >>]
    /\ threw = [j \in Jobs |-> {}]
    /\ faults = 0

-----------------------------------------------------------------------------
\* startJobPosting

\* The status of the session startJobPosting registers.
InitialSessionStatus(i) ==
    IF i = 1 THEN St("filling_form", "Starting...") ELSE St("pending", "Browser launched")

\* The status the catch block of startJobPosting delivers.
StartFailed(i, e) ==
    IF i = 1 THEN Failed("Job posting failed", e) ELSE Failed("Failed to post job", e)

\* POST /api/jobs: a fresh jobId, jobStatuses.set(jobId, initialStatus), and
\* startJobPosting up to its first await (puppeteer.launch).
PostJob(j, payload) ==
    /\ pc[j] = "none"
    /\ \A k \in Jobs : k < j => pc[k] # "none"
    /\ Cardinality({k \in Jobs : pc[k] # "none"}) < workload.posts
    /\ payload \in workload.payloads
    /\ LET queued == MapSet(jobStatuses, j, St("pending", "Job queued for processing"))
           d == Delivered(impl, activeSessions, j, "launch")
       IN  /\ jobStatuses' = Callback(queued, j, d)
           /\ updates' = [updates EXCEPT ![j] = @ \o d]
    /\ photos' = [photos EXCEPT ![j] = payload]
    /\ pc' = [pc EXCEPT ![j] = "run"]
    /\ at' = [at EXCEPT ![j] = 1]
    /\ UNCHANGED <<impl, refusedOtp, cancelled, workload, activeSessions, browser, closedBy, disk, tempFiles, now,
                   caught, cancelling, otp, nOtp, nCancel, returned, threw, faults>>

\* The awaited operation resolves; the code runs on to the next await, or to
\* the end of the try block.  After the trailing delay of uploadPhotos its
\* finally block unlinks the files it pushed.
StartStepOk(j) ==
    /\ pc[j] = "run"
    /\ LET ops == Ops(impl, photos[j] # {})
           op == ops[at[j]]
           nextOp == IF at[j] < Len(ops) THEN ops[at[j] + 1] ELSE "end"
           registered == IF op = "newPage"
                         THEN MapSet(activeSessions, j,
                                     [browser |-> j, status |-> InitialSessionStatus(impl)])
                         ELSE activeSessions
           d == Delivered(impl, registered, j, nextOp)
       IN  /\ op = "launch" \/ IsDelay(op) \/ browser[j] = "open"
           /\ op # "uploadPhotos"
           /\ browser' = IF op = "launch" THEN [browser EXCEPT ![j] = "open"] ELSE browser
           /\ disk' = IF op = "uploadPhotos.delay" THEN Unlinked(disk, tempFiles[j]) ELSE disk
           /\ tempFiles' = IF op = "uploadPhotos.delay" THEN [tempFiles EXCEPT ![j] = {}]
                           ELSE tempFiles
           /\ activeSessions' = SessionsAt(impl, registered, j, nextOp)
           /\ jobStatuses' = Callback(jobStatuses, j, d)
           /\ updates' = [updates EXCEPT ![j] = @ \o d]
           /\ pc' = [pc EXCEPT ![j] = IF nextOp = "end" THEN "done" ELSE "run"]
           /\ at' = [at EXCEPT ![j] = @ + 1]
    /\ UNCHANGED <<impl, refusedOtp, cancelled, workload, closedBy, photos, now, caught, cancelling, otp, nOtp,
                   nCancel, returned, threw, faults>>

\* puppeteer.launch rejects: browser is still null, so the catch block
\* closes nothing and runs to its end at once.
LaunchThrows(j) ==
    /\ pc[j] = "run"
    /\ Ops(impl, photos[j] # {})[at[j]] = "launch"
    /\ Fault(TRUE)
    /\ caught' = [caught EXCEPT ![j] = ErrorOf("launch", browser[j])]
    /\ LET d == <<StartFailed(impl, ErrorOf("launch", browser[j]))>>
       IN  /\ activeSessions' = MapDelete(activeSessions, j)
           /\ jobStatuses' = Callback(jobStatuses, j, d)
           /\ updates' = [updates EXCEPT ![j] = @ \o d]
    /\ pc' = [pc EXCEPT ![j] = "done"]
    /\ UNCHANGED <<impl, refusedOtp, cancelled, workload, browser, closedBy, at, photos, disk, tempFiles, now, cancelling, otp, nOtp, nCancel,
                   returned, threw>>

\* An operation on the browser or the page rejects: the catch block calls
\* browser.close() and awaits it.  When uploadFile rejects, the finally
\* block of uploadPhotos first unlinks the files it pushed.
StartStepThrows(j) ==
    /\ pc[j] = "run"
    /\ LET op == Ops(impl, photos[j] # {})[at[j]]
       IN  /\ op # "launch"
           /\ ~IsDelay(op)
           /\ Fault(browser[j] = "open")
           /\ caught' = [caught EXCEPT ![j] = ErrorOf(op, browser[j])]
    /\ disk' = Unlinked(disk, tempFiles[j])
    /\ tempFiles' = [tempFiles EXCEPT ![j] = {}]
    /\ pc' = [pc EXCEPT ![j] = "catch"]
    /\ UNCHANGED <<impl, refusedOtp, cancelled, workload, activeSessions, jobStatuses, browser, closedBy, at,
                   photos, now, cancelling, otp, nOtp, nCancel, updates, returned, threw>>

\* The page holds no input element: page.waitForSelector('input') of the
\* second implementation times out, and the catch block calls
\* browser.close().
WaitForSelectorTimesOut(j) ==
    /\ pc[j] = "run"
    /\ browser[j] = "open"
    /\ Ops(impl, photos[j] # {})[at[j]] = "waitForSelector"
    /\ caught' = [caught EXCEPT ![j] = "Waiting for selector input failed"]
    /\ pc' = [pc EXCEPT ![j] = "catch"]
    /\ UNCHANGED <<impl, refusedOtp, cancelled, workload, activeSessions, jobStatuses, browser, closedBy, at,
                   photos, disk, tempFiles, now, cancelling, otp, nOtp, nCancel, updates,
                   returned, threw, faults>>

\* uploadPhotos finds no file input and returns at once: the code runs on to
\* fillContactDetails.
UploadPhotosSkips(j) ==
    /\ pc[j] = "run"
    /\ browser[j] = "open"
    /\ LET ops == Ops(impl, photos[j] # {})
           d == Delivered(impl, activeSessions, j, ops[at[j] + 3])
       IN  /\ ops[at[j]] = "uploadPhotos"
           /\ activeSessions' = SessionsAt(impl, activeSessions, j, ops[at[j] + 3])
           /\ jobStatuses' = Callback(jobStatuses, j, d)
           /\ updates' = [updates EXCEPT ![j] = @ \o d]
    /\ at' = [at EXCEPT ![j] = @ + 3]
    /\ UNCHANGED <<impl, refusedOtp, cancelled, workload, browser, closedBy, pc, photos, disk, tempFiles, now,
                   caught, cancelling, otp, nOtp, nCancel, returned, threw, faults>>

\* uploadPhotos finds the file input, writes a file for every payload
\* (writeFileSync), pushes its path, and awaits uploadFile.
UploadPhotosWrites(j) ==
    /\ pc[j] = "run"
    /\ browser[j] = "open"
    /\ Ops(impl, photos[j] # {})[at[j]] = "uploadPhotos"
    /\ LET n == Len(KindsOf(photos[j]))
       IN  \E ts \in Readings(now, n) :
              /\ now' = ts[n]
              /\ disk' = disk \cup TempPaths(photos[j], ts, n)
              /\ tempFiles' = [tempFiles EXCEPT ![j] = TempPaths(photos[j], ts, n)]
    /\ at' = [at EXCEPT ![j] = @ + 1]
    /\ UNCHANGED <<impl, refusedOtp, cancelled, workload, activeSessions, jobStatuses, browser, closedBy, pc,
                   photos, caught, cancelling, otp, nOtp, nCancel, updates, returned, threw,
                   faults>>

\* uploadPhotos finds the file input and the k-th writeFileSync throws,
\* having created its file or not.  Its path is not pushed; the finally
\* block unlinks the paths pushed before it, and the catch block of
\* startJobPosting calls browser.close().
UploadPhotosWriteThrows(j) ==
    /\ pc[j] = "run"
    /\ browser[j] = "open"
    /\ Ops(impl, photos[j] # {})[at[j]] = "uploadPhotos"
    /\ Fault(TRUE)
    /\ \E k \in 1..Len(KindsOf(photos[j])), created \in BOOLEAN :
          \E ts \in Readings(now, k) :
              LET pushed == TempPaths(photos[j], ts, k - 1)
                  failing == TempPath(KindsOf(photos[j])[k], ts[k])
              IN  /\ now' = ts[k]
                  /\ disk' = Unlinked(disk \cup pushed, pushed)
                                 \cup (IF created THEN {failing} ELSE {})
    /\ tempFiles' = [tempFiles EXCEPT ![j] = {}]
    /\ caught' = [caught EXCEPT ![j] = "Failed to write the temporary file"]
    /\ pc' = [pc EXCEPT ![j] = "catch"]
    /\ UNCHANGED <<impl, refusedOtp, cancelled, workload, activeSessions, jobStatuses, browser, closedBy, at,
                   photos, cancelling, otp, nOtp, nCancel, updates, returned, threw>>

\* A catch block that, having delivered failed, runs the failed step again
\* instead of returning.
StartCatchRetries(j) ==
    /\ pc[j] = "catch"
    /\ \E o \in CloseOutcomes(browser[j]) :
          /\ o.ok \/ impl = 1
          /\ BrowserBecomes(j, o.browser, "startJobPosting")
          /\ Fault(~o.ok)
    /\ LET d == <<StartFailed(impl, caught[j])>>
       IN  /\ activeSessions' = MapDelete(activeSessions, j)
           /\ jobStatuses' = Callback(jobStatuses, j, d)
           /\ updates' = [updates EXCEPT ![j] = @ \o d]
    /\ pc' = [pc EXCEPT ![j] = "run"]
    /\ UNCHANGED <<impl, refusedOtp, cancelled, workload, at, photos, disk, tempFiles, now, caught, cancelling, otp, nOtp, nCancel,
                   returned, threw>>

\* browser.close() of the catch block settles and the catch block runs on:
\* the first implementation swallows a rejection (.catch(() => {})).
StartCatchDone(j) ==
    /\ pc[j] = "catch"
    /\ \E o \in CloseOutcomes(browser[j]) :
          /\ o.ok \/ impl = 1
          /\ BrowserBecomes(j, o.browser, "startJobPosting")
          /\ Fault(~o.ok)
    /\ LET d == <<StartFailed(impl, caught[j])>>
       IN  /\ activeSessions' = MapDelete(activeSessions, j)
           /\ jobStatuses' = Callback(jobStatuses, j, d)
           /\ updates' = [updates EXCEPT ![j] = @ \o d]
    /\ pc' = [pc EXCEPT ![j] = "done"]
    /\ UNCHANGED <<impl, refusedOtp, cancelled, workload, at, photos, disk, tempFiles, now, caught, cancelling, otp, nOtp, nCancel, returned, threw>>

\* The second implementation awaits browser.close() bare: its rejection
\* leaves the catch block, startJobPosting rejects, and the .catch of
\* POST /api/jobs records the failure.
StartCatchRejects(j) ==
    /\ pc[j] = "catch"
    /\ impl = 2
    /\ \E o \in CloseOutcomes(browser[j]) :
          /\ ~o.ok
          /\ BrowserBecomes(j, o.browser, "startJobPosting")
          /\ Fault(~o.ok)
    /\ jobStatuses' = MapSet(jobStatuses, j,
                             Failed("Job processing failed", "Failed to close the browser"))
    /\ threw' = [threw EXCEPT ![j] = @ \cup {"startJobPosting"}]
    /\ pc' = [pc EXCEPT ![j] = "rejected"]
    /\ UNCHANGED <<impl, refusedOtp, cancelled, workload, activeSessions, at, photos, disk, tempFiles, now, caught, cancelling, otp, nOtp,
                   nCancel, updates, returned>>

-----------------------------------------------------------------------------
\* getJobStatus and the lookup of GET /api/jobs/:jobId and of the OTP route:
\* jobStatuses.get(jobId) || getJobStatus(jobId); << >> is a miss.
getJobStatus(j) ==
    IF MapHas(activeSessions, j) THEN <<activeSessions[j].status>> ELSE << >>

Lookup(j) ==
    IF MapHas(jobStatuses, j) THEN <<jobStatuses[j]>> ELSE getJobStatus(j)

-----------------------------------------------------------------------------
\* cancelSession and DELETE /api/jobs/:jobId

\* No session: cancelSession returns at once and the route deletes the
\* status record.
CancelAbsent(j) ==
    /\ nCancel < workload.cancels
    /\ ~MapHas(activeSessions, j)
    /\ jobStatuses' = MapDelete(jobStatuses, j)
    /\ nCancel' = nCancel + 1
    /\ cancelled' = IF pc[j] # "none" THEN cancelled \cup {j} ELSE cancelled
    /\ UNCHANGED <<impl, refusedOtp, workload, activeSessions, browser, closedBy, pc, at, photos, disk, tempFiles, now, caught, cancelling,
                   otp, nOtp, updates, returned, threw, faults>>

\* A session: cancelSession calls session.browser.close() and awaits it.
CancelStart(j) ==
    /\ nCancel < workload.cancels
    /\ MapHas(activeSessions, j)
    /\ cancelling' = [cancelling EXCEPT ![j] = @ + 1]
    /\ nCancel' = nCancel + 1
    /\ cancelled' = IF pc[j] # "none" THEN cancelled \cup {j} ELSE cancelled
    /\ UNCHANGED <<impl, refusedOtp, workload, activeSessions, jobStatuses, browser, closedBy, pc, at, photos, disk, tempFiles, now, caught,
                   otp, nOtp, updates, returned, threw, faults>>

\* close() settles; cancelSession deletes the entry and the route deletes
\* the status record.  The first implementation swallows a rejection.
CancelDone(j) ==
    /\ cancelling[j] > 0
    /\ \E o \in CloseOutcomes(browser[j]) :
          /\ o.ok \/ impl = 1
          /\ BrowserBecomes(j, o.browser, "cancelSession")
          /\ Fault(~o.ok)
    /\ activeSessions' = MapDelete(activeSessions, j)
    /\ jobStatuses' = MapDelete(jobStatuses, j)
    /\ cancelling' = [cancelling EXCEPT ![j] = @ - 1]
    /\ UNCHANGED <<impl, refusedOtp, cancelled, workload, pc, at, photos, disk, tempFiles, now, caught, otp, nOtp, nCancel, updates, returned, threw>>

\* The second implementation awaits close() bare: cancelSession rejects
\* before its delete, and the route answers 500 without touching jobStatuses.
CancelRejects(j) ==
    /\ cancelling[j] > 0
    /\ impl = 2
    /\ \E o \in CloseOutcomes(browser[j]) :
          /\ ~o.ok
          /\ BrowserBecomes(j, o.browser, "cancelSession")
          /\ Fault(~o.ok)
    /\ cancelling' = [cancelling EXCEPT ![j] = @ - 1]
    /\ threw' = [threw EXCEPT ![j] = @ \cup {"cancelSession"}]
    /\ UNCHANGED <<impl, refusedOtp, cancelled, workload, activeSessions, jobStatuses, pc, at, photos, disk, tempFiles, now, caught, otp, nOtp,
                   nCancel, updates, returned>>

-----------------------------------------------------------------------------
\* submitOtp and POST /api/jobs/:jobId/otp

\* A gate that lets through every job that has a status.
OtpGateAnyStatus(j) ==
    Lookup(j) # << >>

\* The route calls submitOtp only for a job whose looked-up status is
\* awaiting_otp (404 on a miss, 400 on any other status).
OtpGate(j) ==
    /\ Lookup(j) # << >>
    /\ Lookup(j)[1].status = "awaiting_otp"

\* The HTTP status of the answer to an OTP request for job j, whose body
\* holds a code or not: 400 without a code, 404 on a miss, 400 on a status
\* other than awaiting_otp, 200 with what submitOtp returned.
OtpAnswer(j, hasOtp) ==
    IF ~hasOtp THEN 400
    ELSE IF Lookup(j) = << >> THEN 404
    ELSE IF Lookup(j)[1].status # "awaiting_otp" THEN 400
    ELSE 200

\* The route refuses the request and returns: submitOtp is not called and
\* nothing is stored.
OtpRefused(j) ==
    /\ Len(refusedOtp) < workload.refusals
    /\ \E hasOtp \in BOOLEAN :
          /\ ~hasOtp \/ ~OtpGate(j)
          /\ refusedOtp' = Append(refusedOtp, [jobId |-> j, otp |-> hasOtp,
                                               code |-> OtpAnswer(j, hasOtp)])
    /\ UNCHANGED <<impl, workload, activeSessions, jobStatuses, browser, closedBy, pc, at, photos,
                   disk, tempFiles, now, caught, cancelling, otp, nOtp, nCancel, cancelled,
                   updates, returned, threw, faults>>

SessionNotFound(i) ==
    IF i = 1 THEN Failed("Session not found", "No active session for this job")
    ELSE Failed("Session not found", "No active session for this job ID")

OtpFailed(i, e) ==
    IF i = 1 THEN Failed("Failed to verify OTP", e) ELSE Failed("Failed to verify code", e)

\* A completed status that carries a job URL whether or not the pattern
\* matched.
CompletedWithUrl(found) ==
    [status |-> "completed", message |-> "Job posted successfully!", error |-> "",
     hipagesJobId |-> found, hipagesJobUrl |-> TRUE]

\* hipagesJobId and hipagesJobUrl are both set when the pattern matched.
Completed(found) ==
    [status |-> "completed", message |-> "Job posted successfully!", error |-> "",
     hipagesJobId |-> found, hipagesJobUrl |-> found]

\* A submitOtp that throws on a missing session instead of returning the
\* failed status: the route answers 500 and stores nothing.
SubmitOtpMissThrows(j) ==
    /\ nOtp < workload.otps
    /\ OtpGate(j)
    /\ ~MapHas(activeSessions, j)
    /\ threw' = [threw EXCEPT ![j] = @ \cup {"submitOtp"}]
    /\ nOtp' = nOtp + 1
    /\ UNCHANGED <<impl, refusedOtp, cancelled, workload, activeSessions, jobStatuses, browser, closedBy, pc, at, photos, disk, tempFiles, now,
                   caught, cancelling, otp, nCancel, updates, returned, faults>>

\* No session: submitOtp returns the failed status at once and the route
\* stores it.
SubmitOtpMiss(j) ==
    /\ nOtp < workload.otps
    /\ OtpGate(j)
    /\ ~MapHas(activeSessions, j)
    /\ returned' = [returned EXCEPT ![j] = Append(@, SessionNotFound(impl))]
    /\ jobStatuses' = MapSet(jobStatuses, j, SessionNotFound(impl))
    /\ nOtp' = nOtp + 1
    /\ UNCHANGED <<impl, refusedOtp, cancelled, workload, activeSessions, browser, closedBy, pc, at, photos, disk, tempFiles, now, caught, cancelling,
                   otp, nCancel, updates, threw, faults>>

\* A session: submitOtp keeps its browser and page, the second
\* implementation sets the session's status to submitting, and the first
\* page.$ is awaited.
SubmitOtpStart(j) ==
    /\ nOtp < workload.otps
    /\ OtpGate(j)
    /\ MapHas(activeSessions, j)
    /\ activeSessions' =
          IF impl = 1 THEN activeSessions
          ELSE [activeSessions EXCEPT ![j].status =
                    [@ EXCEPT !.status = "submitting", !.message = "Verifying code..."]]
    /\ otp' = [otp EXCEPT ![j] = Inc(@, OtpPoint("interact", ""))]
    /\ nOtp' = nOtp + 1
    /\ UNCHANGED <<impl, refusedOtp, cancelled, workload, jobStatuses, browser, closedBy, pc, at, photos, disk, tempFiles, now, caught, cancelling,
                   nCancel, updates, returned, threw, faults>>

\* The code is typed and the verify button clicked; delay(3000), or the
\* swallowed waitForNavigation, follows.
OtpInteractOk(j) ==
    /\ otp[j][OtpPoint("interact", "")] > 0
    /\ browser[j] = "open"
    /\ otp' = [otp EXCEPT ![j] = Inc(Dec(@, OtpPoint("interact", "")), OtpPoint("wait", ""))]
    /\ UNCHANGED <<impl, refusedOtp, cancelled, workload, activeSessions, jobStatuses, browser, closedBy, pc, at, photos, disk, tempFiles, now, caught,
                   cancelling, nOtp, nCancel, updates, returned, threw, faults>>

\* An interaction rejects: the catch block calls browser.close().
OtpInteractThrows(j) ==
    /\ otp[j][OtpPoint("interact", "")] > 0
    /\ Fault(browser[j] = "open")
    /\ otp' = [otp EXCEPT ![j] = Inc(Dec(@, OtpPoint("interact", "")),
                                     OtpPoint("catchClose", ErrorOf("submitOtp", browser[j])))]
    /\ UNCHANGED <<impl, refusedOtp, cancelled, workload, activeSessions, jobStatuses, browser, closedBy, pc, at, photos, disk, tempFiles, now, caught,
                   cancelling, nOtp, nCancel, updates, returned, threw>>

\* The wait ends.  The first implementation then reads page.content(),
\* which needs the browser; the second reads page.url() only.  Both go on
\* to browser.close().
OtpWaitOk(j) ==
    /\ otp[j][OtpPoint("wait", "")] > 0
    /\ impl = 2 \/ browser[j] = "open"
    /\ otp' = [otp EXCEPT ![j] = Inc(Dec(@, OtpPoint("wait", "")), OtpPoint("close", ""))]
    /\ UNCHANGED <<impl, refusedOtp, cancelled, workload, activeSessions, jobStatuses, browser, closedBy, pc, at, photos, disk, tempFiles, now, caught,
                   cancelling, nOtp, nCancel, updates, returned, threw, faults>>

\* page.content() of the first implementation rejects.
OtpContentThrows(j) ==
    /\ otp[j][OtpPoint("wait", "")] > 0
    /\ impl = 1
    /\ Fault(browser[j] = "open")
    /\ otp' = [otp EXCEPT ![j] = Inc(Dec(@, OtpPoint("wait", "")),
                                     OtpPoint("catchClose", ErrorOf("submitOtp", browser[j])))]
    /\ UNCHANGED <<impl, refusedOtp, cancelled, workload, activeSessions, jobStatuses, browser, closedBy, pc, at, photos, disk, tempFiles, now, caught,
                   cancelling, nOtp, nCancel, updates, returned, threw>>

\* browser.close() of the try block resolves: the entry is deleted,
\* completed is returned and the route stores it.
OtpCloseOk(j) ==
    /\ otp[j][OtpPoint("close", "")] > 0
    /\ BrowserBecomes(j, "closed", "submitOtp")
    /\ activeSessions' = MapDelete(activeSessions, j)
    /\ \E found \in BOOLEAN :
          /\ returned' = [returned EXCEPT ![j] = Append(@, Completed(found))]
          /\ jobStatuses' = MapSet(jobStatuses, j, Completed(found))
    /\ otp' = [otp EXCEPT ![j] = Dec(@, OtpPoint("close", ""))]
    /\ UNCHANGED <<impl, refusedOtp, cancelled, workload, pc, at, photos, disk, tempFiles, now, caught, cancelling, nOtp, nCancel, updates, threw, faults>>

\* browser.close() of the try block rejects: the catch block calls
\* browser.close() again.
OtpCloseThrows(j) ==
    /\ otp[j][OtpPoint("close", "")] > 0
    /\ \E o \in CloseOutcomes(browser[j]) :
          /\ ~o.ok
          /\ BrowserBecomes(j, o.browser, "submitOtp")
          /\ Fault(~o.ok)
    /\ otp' = [otp EXCEPT ![j] = Inc(Dec(@, OtpPoint("close", "")),
                                     OtpPoint("catchClose", "Failed to close the browser"))]
    /\ UNCHANGED <<impl, refusedOtp, cancelled, workload, activeSessions, jobStatuses, pc, at, photos, disk, tempFiles, now, caught, cancelling,
                   nOtp, nCancel, updates, returned, threw>>

\* browser.close() of the catch block settles and the catch block runs on:
\* the entry is deleted, failed is returned and the route stores it.  The
\* first implementation swallows a rejection.
OtpCatchDone(j) ==
    \E e \in OtpErrors :
        /\ otp[j][OtpPoint("catchClose", e)] > 0
        /\ \E o \in CloseOutcomes(browser[j]) :
              /\ o.ok \/ impl = 1
              /\ BrowserBecomes(j, o.browser, "submitOtp")
              /\ Fault(~o.ok)
        /\ activeSessions' = MapDelete(activeSessions, j)
        /\ returned' = [returned EXCEPT ![j] = Append(@, OtpFailed(impl, e))]
        /\ jobStatuses' = MapSet(jobStatuses, j, OtpFailed(impl, e))
        /\ otp' = [otp EXCEPT ![j] = Dec(@, OtpPoint("catchClose", e))]
        /\ UNCHANGED <<impl, refusedOtp, cancelled, workload, pc, at, photos, disk, tempFiles, now, caught, cancelling, nOtp, nCancel, updates, threw>>

\* The second implementation awaits browser.close() bare in its catch
\* block: submitOtp rejects before its delete and the route answers 500.
OtpCatchRejects(j) ==
    \E e \in OtpErrors :
        /\ otp[j][OtpPoint("catchClose", e)] > 0
        /\ impl = 2
        /\ \E o \in CloseOutcomes(browser[j]) :
              /\ ~o.ok
              /\ BrowserBecomes(j, o.browser, "submitOtp")
              /\ Fault(~o.ok)
        /\ otp' = [otp EXCEPT ![j] = Dec(@, OtpPoint("catchClose", e))]
        /\ threw' = [threw EXCEPT ![j] = @ \cup {"submitOtp"}]
        /\ UNCHANGED <<impl, refusedOtp, cancelled, workload, activeSessions, jobStatuses, pc, at, photos, disk, tempFiles, now, caught,
                       cancelling, nOtp, nCancel, updates, returned>>

-----------------------------------------------------------------------------
Next ==
    \E j \in Jobs :
        \/ \E payload \in PhotoPayloads : PostJob(j, payload)
        \/ StartStepOk(j)
        \/ LaunchThrows(j)
        \/ StartStepThrows(j)
        \/ WaitForSelectorTimesOut(j)
        \/ UploadPhotosSkips(j)
        \/ UploadPhotosWrites(j)
        \/ UploadPhotosWriteThrows(j)
        \/ StartCatchDone(j)
        \/ StartCatchRejects(j)
        \/ CancelAbsent(j)
        \/ CancelStart(j)
        \/ CancelDone(j)
        \/ CancelRejects(j)
        \/ OtpRefused(j)
        \/ SubmitOtpMiss(j)
        \/ SubmitOtpStart(j)
        \/ OtpInteractOk(j)
        \/ OtpInteractThrows(j)
        \/ OtpWaitOk(j)
        \/ OtpContentThrows(j)
        \/ OtpCloseOk(j)
        \/ OtpCloseThrows(j)
        \/ OtpCatchDone(j)
        \/ OtpCatchRejects(j)

Spec == Init /\ [][Next]_vars

-----------------------------------------------------------------------------
\* Vocabulary of the properties.

Terminal == {"completed", "failed"}

NonTerminal == {"pending", "filling_form", "uploading_photos", "awaiting_otp", "submitting"}

Last(seq) == seq[Len(seq)]

CountFailed(seq) == Cardinality({n \in 1..Len(seq) : seq[n].status = "failed"})

\* startJobPosting(j) has finished: returned, or rejected.
StartFinished(j) == pc[j] \in {"done", "rejected"}

\* The statuses submitOtp(j) returned from a call that found a session.
SessionReturns(j) == SelectSeq(returned[j], LAMBDA r : r.message # "Session not found")

\* In this step a submitOtp(j) call settles / a cancelSession(j) call settles.
OtpSettles(j) == \E p \in OtpPoints : otp'[j][p] < otp[j][p] /\ \A q \in OtpPoints : otp'[j][q] <= otp[j][q]

CancelSettles(j) == cancelling'[j] < cancelling[j]

-----------------------------------------------------------------------------
\* C1.  In every reachable state and for every job, the session store holds
\* an entry for the job if and only if the job's browser has been launched
\* and not yet closed.
C1_SessionIffBrowserOpen ==
    \A j \in Jobs : MapHas(activeSessions, j) <=> browser[j] = "open"

\* C2.  Once a startJobPosting call in which a step failed has finished, the
\* job has no session and onStatusUpdate has been given exactly one failed
\* status, the last one, carrying the message of the failure.  (The claim
\* also has the browser closed; whether a browser whose close() rejected
\* still runs is not the program's to decide, and is left out here.)
C2_FailedStartCleansUp ==
    \A j \in Jobs :
        (StartFinished(j) /\ caught[j] # "") =>
            /\ ~MapHas(activeSessions, j)
            /\ CountFailed(updates[j]) = 1
            /\ Last(updates[j]).status = "failed"
            /\ Last(updates[j]).error = caught[j]

\* C3.  A submitOtp call on a job with a session never rejects; it returns
\* completed or failed, and from then on the job has no session and
\* getJobStatus misses.  (The claim also has the browser closed; whether a
\* browser whose close() rejected still runs is not the program's to decide,
\* and is left out here.)
C3_SubmitOtpReturnsAndRemoves ==
    \A j \in Jobs :
        /\ "submitOtp" \notin threw[j]
        /\ \A n \in 1..Len(returned[j]) : returned[j][n].status \in Terminal
        /\ SessionReturns(j) # << >> =>
              /\ ~MapHas(activeSessions, j)
              /\ getJobStatus(j) = << >>

\* C4.  A submitOtp call on a job with no session returns, in the same step
\* and without rejecting, failed with message 'Session not found', and
\* leaves the session store and every browser as they were; a call goes in
\* flight only on a job that has a session.
C4_MissReturnsFailedAndChangesNothing ==
    [][ /\ (nOtp' = nOtp + 1 /\ otp' = otp) =>
              /\ \E j \in Jobs :
                    /\ ~MapHas(activeSessions, j)
                    /\ returned'[j] # << >>
                    /\ returned' = [returned EXCEPT ![j] = Append(@, Last(returned'[j]))]
                    /\ Last(returned'[j]).status = "failed"
                    /\ Last(returned'[j]).message = "Session not found"
              /\ threw' = threw
              /\ activeSessions' = activeSessions
              /\ browser' = browser
        /\ \A j \in Jobs :
              (nOtp' = nOtp + 1 /\ otp'[j] # otp[j]) => MapHas(activeSessions, j)
      ]_vars

\* C4 witness: submitOtp has returned 'Session not found' for one job while
\* another job has a live session.
C4_Witness ==
    \E j, k \in Jobs :
        /\ j # k
        /\ returned[j] # << >>
        /\ Last(returned[j]).message = "Session not found"
        /\ MapHas(activeSessions, k)
        /\ browser[k] = "open"

\* C5.  cancelSession twice in a row is cancelSession once: when a call
\* settles the job has no session, so the next call finds none; a call that
\* finds none closes nothing and changes nothing; and no call touches the
\* session of another job.
C5_CancelTwiceIsCancelOnce ==
    [][ /\ \A j \in Jobs :
              CancelSettles(j) =>
                  /\ ~MapHas(activeSessions', j)
                  /\ \A k \in Jobs \ {j} :
                        /\ MapHas(activeSessions', k) = MapHas(activeSessions, k)
                        /\ MapHas(activeSessions, k) => activeSessions'[k] = activeSessions[k]
        /\ (nCancel' = nCancel + 1 /\ cancelling' = cancelling) =>
              /\ activeSessions' = activeSessions
              /\ browser' = browser
      ]_vars

\* C6.  When browser.close() rejects in cancelSession, the call still
\* completes normally (nothing reaches the caller) and the entry is removed.
C6_CancelSwallowsCloseError ==
    [][ \A j \in Jobs :
            (CancelSettles(j) /\ faults' > faults) =>
                /\ threw' = threw
                /\ ~MapHas(activeSessions', j)
      ]_vars

\* C7.  A startJobPosting call never finishes, normally or by rejecting,
\* without failed or awaiting_otp as the last status given to onStatusUpdate.
C7_StartEndsFailedOrAwaitingOtp ==
    \A j \in Jobs :
        StartFinished(j) =>
            /\ updates[j] # << >>
            /\ Last(updates[j]).status \in {"failed", "awaiting_otp"}

\* C8.  Over the life of a job at most one terminal status is produced for
\* it: the failed updates of startJobPosting and the statuses submitOtp
\* returned from its session count one in all.
C8_OneTerminalStatusPerJob ==
    \A j \in Jobs : CountFailed(updates[j]) + Len(SessionReturns(j)) <= 1

\* C9.  While the caller-visible status of a job is not terminal the job has
\* a session; and the lookup of a job whose recorded status is not terminal
\* and which has no session is a miss.
C9_NonTerminalStatusHasSession ==
    \A j \in Jobs :
        (MapHas(jobStatuses, j) /\ jobStatuses[j].status \in NonTerminal) =>
            /\ Lookup(j)[1].status \in NonTerminal => MapHas(activeSessions, j)
            /\ ~MapHas(activeSessions, j) => Lookup(j) = << >>

\* C10.  Once cancelSession has closed the browser of a job, a call still in
\* flight for the job never goes on to report awaiting_otp or completed:
\* startJobPosting delivers no awaiting_otp and submitOtp returns no
\* completed.
C10_CancelledCallsEndFailed ==
    [][ \A j \in Jobs :
            closedBy[j] = "cancelSession" =>
                /\ updates'[j] # updates[j] => Last(updates'[j]).status # "awaiting_otp"
                /\ returned'[j] # returned[j] => Last(returned'[j]).status # "completed"
      ]_vars

\* C11.  A job cancelSession was called for after its startJobPosting began
\* (while the browser was launching included) never ends up, once both
\* calls have finished, with a live session waiting at awaiting_otp.
C11_CancelledJobNotAwaitingOtp ==
    \A j \in cancelled :
        (StartFinished(j) /\ cancelling[j] = 0) =>
            ~(/\ MapHas(activeSessions, j)
              /\ browser[j] = "open"
              /\ activeSessions[j].status.status = "awaiting_otp")

\* No startJobPosting, submitOtp or cancelSession call is in flight for job j.
NoCallInFlight(j) ==
    /\ pc[j] \notin {"run", "catch"}
    /\ cancelling[j] = 0
    /\ \A p \in OtpPoints : otp[j][p] = 0

\* submitOtp has been called for job j.
OtpCalled(j) ==
    \/ returned[j] # << >>
    \/ "submitOtp" \in threw[j]
    \/ \E p \in OtpPoints : otp[j][p] > 0

\* C12.  When startJobPosting has finished without failure and neither
\* submitOtp nor cancelSession has been called for the job, the job has a
\* session with its browser open and getJobStatus returns awaiting_otp; and a
\* session stored while no call is in flight for its job is at awaiting_otp.
C12_AwaitingOtpIsTheOnlyRestingSession ==
    \A j \in Jobs :
        /\ (pc[j] = "done" /\ caught[j] = "" /\ j \notin cancelled /\ ~OtpCalled(j)) =>
              /\ MapHas(activeSessions, j)
              /\ browser[j] = "open"
              /\ getJobStatus(j) = <<activeSessions[j].status>>
              /\ activeSessions[j].status.status = "awaiting_otp"
        /\ (MapHas(activeSessions, j) /\ NoCallInFlight(j)) =>
              activeSessions[j].status.status = "awaiting_otp"

\* The status values that may come next after status a in the sequence
\* pending -> filling_form -> (uploading_photos)? -> filling_form ->
\* awaiting_otp -> submitting -> completed, failed being reachable from every
\* non-terminal status; a status may repeat (several updates of one stage).
NextStatuses(a) ==
    CASE a = "pending" -> {"pending", "filling_form", "failed"}
      [] a = "filling_form" -> {"filling_form", "uploading_photos", "awaiting_otp", "failed"}
      [] a = "uploading_photos" -> {"uploading_photos", "filling_form", "failed"}
      [] a = "awaiting_otp" -> {"awaiting_otp", "submitting", "failed"}
      [] a = "submitting" -> {"submitting", "completed", "failed"}
      [] OTHER -> {}

\* C13.  For a job that is not cancelled, every status delivered to
\* onStatusUpdate, and every status written to the session's cache, is one
\* that may follow the previous one in the
\* sequence pending -> filling_form -> (uploading_photos)? -> filling_form ->
\* awaiting_otp -> submitting -> completed (failed from any non-terminal
\* status); and submitOtp returns completed only from a session at submitting.
C13_StatusSequence ==
    [][ \A j \in Jobs \ cancelled' :
            /\ (updates'[j] # updates[j] /\ updates[j] # << >>) =>
                  Last(updates'[j]).status \in NextStatuses(Last(updates[j]).status)
            /\ (MapHas(activeSessions, j) /\ MapHas(activeSessions', j)) =>
                  activeSessions'[j].status.status
                      \in NextStatuses(activeSessions[j].status.status)
            /\ (Len(returned'[j]) > Len(returned[j])
                    /\ Last(returned'[j]).status = "completed") =>
                  /\ MapHas(activeSessions, j)
                  /\ activeSessions[j].status.status = "submitting"
      ]_vars

\* The place of a status in the stage order pending, filling_form,
\* uploading_photos, awaiting_otp, submitting, then terminal.
StageRank(s) ==
    CASE s = "pending" -> 0
      [] s = "filling_form" -> 1
      [] s = "uploading_photos" -> 2
      [] s = "awaiting_otp" -> 3
      [] s = "submitting" -> 4
      [] OTHER -> 5

\* C14.  The updates delivered for a job that is not cancelled are monotonic
\* in the stage order: no update carries a status that comes earlier in the
\* order than the status of a previous update of the job.
C14_UpdatesMonotonic ==
    \A j \in Jobs \ cancelled :
        \A n, m \in 1..Len(updates[j]) :
            n < m => StageRank(updates[j][n].status) <= StageRank(updates[j][m].status)

\* The messages of the updates startJobPosting delivers when every stage
\* runs, in the order of the stages.
StageMessages(i, withPhotos) ==
    LET update(op) == IF i = 1 THEN Update1(op) ELSE Update2(op)
        stages == SelectSeq(Ops(i, withPhotos) \o <<"end">>, LAMBDA op : update(op) # << >>)
    IN  [n \in 1..Len(stages) |-> update(stages[n])[1].message]

\* The n-th update delivered for a job, when it is a progress update, is
\* that of the n-th stage.
InStageOrder(n, update, i, withPhotos) ==
    update.status # "failed" =>
        /\ n <= Len(StageMessages(i, withPhotos))
        /\ update.message = StageMessages(i, withPhotos)[n]

\* C15.  Updates reach the callback in the order the stages executed, each
\* once, and once a failed update has been delivered for a job no further
\* update is delivered for it: each step appends at most one update to a
\* job's updates, after those already delivered, different from all of them
\* and next in the order of the stages, and none after a failed one.
C15_FailedIsTheLastUpdate ==
    [][ \A j \in Jobs :
            updates'[j] # updates[j] =>
                /\ Len(updates'[j]) = Len(updates[j]) + 1
                /\ SubSeq(updates'[j], 1, Len(updates[j])) = updates[j]
                /\ InStageOrder(Len(updates'[j]), Last(updates'[j]), impl, photos'[j] # {})
                /\ \A n \in 1..Len(updates[j]) :
                      /\ updates[j][n].status # "failed"
                      /\ updates[j][n] # Last(updates'[j])
      ]_vars

\* C15 witness: a job cancelled while its startJobPosting ran has been
\* given progress updates and then failed, and the call has finished.
C15_Witness ==
    \E j \in cancelled :
        /\ pc[j] = "done"
        /\ closedBy[j] = "cancelSession"
        /\ Len(updates[j]) >= 3
        /\ Last(updates[j]).status = "failed"

\* C16.  Whenever a job has a session, getJobStatus returns a status that is
\* not behind the latest status delivered to onStatusUpdate for the job; and
\* getJobStatus is a miss whenever the job has no session.
C16_CachedStatusKeepsUp ==
    \A j \in Jobs :
        /\ (MapHas(activeSessions, j) /\ updates[j] # << >>) =>
              /\ getJobStatus(j) # << >>
              /\ StageRank(getJobStatus(j)[1].status) >= StageRank(Last(updates[j]).status)
        /\ ~MapHas(activeSessions, j) => getJobStatus(j) = << >>

\* C17.  Every temporary image file on the disk belongs to a photo-upload
\* stage that is still running: once the stage of a job has ended, by
\* returning or by throwing, none of the files it created is left.
C17_NoTempFileOutlivesItsStage ==
    disk \subseteq UNION {tempFiles[j] : j \in Jobs}

\* A status record carries hipagesJobId / hipagesJobUrl only when completed,
\* both or neither, and an error only when failed.
FieldsFitStatus(r) ==
    /\ (r.hipagesJobId \/ r.hipagesJobUrl) => r.status = "completed"
    /\ r.hipagesJobId = r.hipagesJobUrl
    /\ r.error # "" => r.status = "failed"

\* C18.  Every status record produced for a job (delivered to
\* onStatusUpdate, returned by submitOtp, cached in the session, stored by
\* the routes) carries result fields only when completed, both or neither,
\* and an error only when failed; and a submitOtp whose browser.close() of
\* the try block resolves returns completed, with or without result fields.
C18_FieldsFitStatus ==
    [][ \A j \in Jobs :
            /\ updates'[j] # << >> => FieldsFitStatus(Last(updates'[j]))
            /\ returned'[j] # << >> => FieldsFitStatus(Last(returned'[j]))
            /\ MapHas(activeSessions', j) => FieldsFitStatus(activeSessions'[j].status)
            /\ MapHas(jobStatuses', j) => FieldsFitStatus(jobStatuses'[j])
            /\ (/\ otp'[j][OtpPoint("close", "")] < otp[j][OtpPoint("close", "")]
                /\ \A e \in OtpErrors :
                      otp'[j][OtpPoint("catchClose", e)] = otp[j][OtpPoint("catchClose", e)]) =>
                  /\ Len(returned'[j]) = Len(returned[j]) + 1
                  /\ Last(returned'[j]).status = "completed"
      ]_vars

\* C18 witness: submitOtp has returned completed with no identifier
\* extracted, after a startJobPosting that delivered its updates.
C18_Witness ==
    \E j \in Jobs :
        /\ returned[j] # << >>
        /\ Last(returned[j]).status = "completed"
        /\ ~Last(returned[j]).hipagesJobId
        /\ ~Last(returned[j]).hipagesJobUrl
        /\ updates[j] # << >>
        /\ Last(updates[j]).status = "awaiting_otp"

\* C19.  A startJobPosting call in which no operation failed and whose
\* browser nobody closed ends at awaiting_otp, never at failed, whatever
\* elements its lookups found or did not find.
C19_AbsentElementsAreNoError ==
    \A j \in Jobs :
        (faults = 0 /\ j \notin cancelled /\ pc[j] \in {"catch", "done", "rejected"}) =>
            /\ pc[j] = "done"
            /\ caught[j] = ""
            /\ Last(updates[j]).status = "awaiting_otp"

\* C20.  When the swallowed navigation wait after the get-quotes click ends,
\* by a navigation or by its timeout, startJobPosting goes on to the next
\* stage; when the one after the verify click ends, submitOtp goes on to
\* close the browser; and a startJobPosting whose page.goto timed out ends
\* having delivered failed.
C20_OnlyTheInitialLoadTimeoutIsFatal ==
    [][ \A j \in Jobs :
            /\ (/\ pc[j] = "run"
                /\ Ops(impl, photos[j] # {})[at[j]] = "clickGetQuotes.delay"
                /\ at'[j] # at[j]) =>
                  /\ pc'[j] = "run"
                  /\ updates'[j] = updates[j] \/ Last(updates'[j]).status # "failed"
            /\ (impl = 2 /\ otp'[j][OtpPoint("wait", "")] < otp[j][OtpPoint("wait", "")]) =>
                  otp'[j][OtpPoint("close", "")] > otp[j][OtpPoint("close", "")]
            /\ (/\ ~StartFinished(j)
                /\ StartFinished(j)'
                /\ Ops(impl, photos[j] # {})[at[j]] = "goto"
                /\ caught[j] = "Navigation timeout") =>
                  /\ pc'[j] = "done"
                  /\ Last(updates'[j]).status = "failed"
      ]_vars

\* In this step submitOtp is called for job j.
SubmitOtpBegins(j) ==
    /\ nOtp' = nOtp + 1
    /\ otp'[j] # otp[j] \/ returned'[j] # returned[j] \/ threw'[j] # threw[j]

\* startJobPosting(j) has delivered awaiting_otp.
AwaitingOtpDelivered(j) == \E n \in 1..Len(updates[j]) : updates[j][n].status = "awaiting_otp"

\* C21.  The OTP route calls submitOtp only for a job whose looked-up status
\* is awaiting_otp, and so only for a job whose startJobPosting has
\* delivered awaiting_otp; a request for an unknown job is answered 404 and
\* one for a job in another status 400 (a request without a code is
\* answered 400 whatever the job), and such a request calls nothing
\* and leaves the status store and the session store as they were.
C21_OtpGatedOnAwaitingOtp ==
    [][ /\ \A j \in Jobs :
              SubmitOtpBegins(j) =>
                  /\ Lookup(j) # << >>
                  /\ Lookup(j)[1].status = "awaiting_otp"
                  /\ AwaitingOtpDelivered(j)
        /\ refusedOtp' # refusedOtp =>
              /\ jobStatuses' = jobStatuses
              /\ activeSessions' = activeSessions
              /\ nOtp' = nOtp /\ otp' = otp /\ returned' = returned /\ threw' = threw
              /\ LET r == Last(refusedOtp')
                 IN  /\ r.code \in {400, 404}
                     /\ r.otp =>
                           /\ r.code = 404 <=> Lookup(r.jobId) = << >>
                           /\ r.code = 400 =>
                                 Lookup(r.jobId)[1].status
                                     \in (NonTerminal \cup Terminal) \ {"awaiting_otp"}
      ]_vars

\* C21 witness: the route refused an OTP request that held a code with
\* 400, and later called submitOtp for the same job.
C21_Witness ==
    \E n \in 1..Len(refusedOtp) :
        /\ refusedOtp[n].otp
        /\ refusedOtp[n].code = 400
        /\ OtpCalled(refusedOtp[n].jobId)

\* C22.  Once the status record of a job in jobStatuses is completed or
\* failed, no step changes it to another status value: a step leaves the
\* value as it is, or deletes the record.
C22_TerminalRecordKeepsItsStatus ==
    [][ \A j \in Jobs :
            (/\ MapHas(jobStatuses, j)
             /\ jobStatuses[j].status \in Terminal
             /\ MapHas(jobStatuses', j)) =>
                jobStatuses'[j].status = jobStatuses[j].status
      ]_vars

\* C23.  After a DELETE request for a job has been answered, the status
\* record of the job stays absent: the record of a posted job is absent only
\* once a cancel has deleted it, and no later step stores one again.
C23_CancelledRecordStaysAbsent ==
    [][ \A j \in Jobs :
            (pc[j] # "none" /\ ~MapHas(jobStatuses, j)) => ~MapHas(jobStatuses', j)
      ]_vars

\* uploadPhotos(k) has written its files and awaits fileInput.uploadFile.
Uploading(k) ==
    /\ pc[k] = "run"
    /\ Ops(impl, photos[k] # {})[at[k]] = "uploadPhotos.upload"

\* C24.  While a job awaits the upload of the temporary files it wrote, no
\* step of another job writes a file at one of their paths, and none
\* removes one of them.
C24_TempFilesAreNotShared ==
    [][ \A k \in Jobs :
            (Uploading(k) /\ tempFiles[k] \subseteq disk) =>
                /\ \A j \in Jobs \ {k} :
                      tempFiles'[j] # tempFiles[j] => tempFiles'[j] \cap tempFiles[k] = {}
                /\ tempFiles'[k] = tempFiles[k] => tempFiles[k] \subseteq disk'
      ]_vars

====
